---- MODULE Spec2Model ----
(***************************************************************************)
(* Model of colorTest_main.c: the screen controller ScreensFSM, the nested *)
(* test controller testFSM, its helper guess and the comparison match.     *)
(* One Tick action is one call of ScreensFSM from the main loop.           *)
(***************************************************************************)
EXTENDS Integers, Sequences, FiniteSets, TLC

(* joystick magnitudes are drawn from 0..MaxSample *)
MaxSample == 2

OPENING_WAIT == 1000
ENDTEST_WAIT == 2000
TOP_OPTION_POS == 1
BOTTOM_OPTION_POS == 4
RED == 0
GREEN == 1
BLUE == 2
END == 3

(* a - b on unsigned int; below zero it wraps to a - b + 2^32, which is   *)
(* above every menu index and is represented by the largest integer here  *)
USub(a, b) == IF a >= b THEN a - b ELSE 2147483647

VARIABLES
    state,        \* ScreensFSM: static enum states
    OST,          \* ScreensFSM: static OneShotSWTimer_t
    newTest,      \* ScreensFSM: static bool
    testState,    \* testFSM: static enum {setup, lightup, testing}
    colorIndex,   \* testFSM: static color_t
    arrowPos,     \* testFSM: static unsigned int
    actualColor,  \* testFSM: static colorMix_t
    guessColor,   \* testFSM: static colorMix_t
    leds,         \* the three booster LEDs
    lcd,          \* what the display shows
    result,       \* ScreensFSM: local bool result, as it is when the call ends
    io,           \* what the latest call of ScreensFSM read, called and drew
    hist          \* inputs of the current test: sampled bits, selected rows

vars == <<state, OST, newTest, testState, colorIndex, arrowPos, actualColor,
          guessColor, leds, lcd, result, io, hist>>

NoColor == [hasRed |-> FALSE, hasGreen |-> FALSE, hasBlue |-> FALSE]
LedsOff == [red |-> FALSE, green |-> FALSE, blue |-> FALSE]

(* ---------------------------- display ---------------------------------- *)

LCDClearDisplay(name) == [screen |-> name, arrow |-> {}, star |-> {}]

LCDDrawChar(l, row, col, ch) ==
    IF col = 1
    THEN IF ch = ">" THEN [l EXCEPT !.arrow = @ \cup {row}]
                     ELSE [l EXCEPT !.arrow = @ \ {row}]
    ELSE [l EXCEPT !.star = @ \cup {row}]

DrawOpeningScreen == LCDClearDisplay("opening")

DrawInstructionsScreen == LCDClearDisplay("instructions")

DrawTestScreen == LCDDrawChar(LCDClearDisplay("test"), 1, 1, ">")

DrawEndTestScreen(correct) ==
    IF correct THEN LCDClearDisplay("Right!") ELSE LCDClearDisplay("Wrong!")

(* ----------------------------- timer ----------------------------------- *)

StartOneShotSWTimer(wait) == [wait |-> wait, running |-> TRUE, expired |-> FALSE]

OneShotSWTimerExpired(t) == t.expired

(* ----------------------------- match ----------------------------------- *)

match_asym(g, a) ==
    (g.hasBlue => a.hasBlue) /\ (g.hasGreen => a.hasGreen) /\ (g.hasRed => a.hasRed)

match_mut(g, a) ==
    (g.hasGreen = a.hasGreen) /\ (g.hasRed = a.hasRed)

match(g, a) ==
    (g.hasBlue = a.hasBlue) /\ (g.hasGreen = a.hasGreen) /\ (g.hasRed = a.hasRed)

(* ----------------------------- guess ----------------------------------- *)

MoveArrow_noWrap(pos, bottomPushed) ==
    IF bottomPushed THEN pos + 1 ELSE pos

(* the arrow after the bottom-button part of guess *)
MoveArrow(pos, bottomPushed) ==
    IF bottomPushed
    THEN IF pos + 1 > BOTTOM_OPTION_POS
         THEN TOP_OPTION_POS
         ELSE pos + 1
    ELSE pos

Select_toggle(g, pos) ==
    LET choice == USub(pos, TOP_OPTION_POS)
    IN  CASE choice = RED   -> [g EXCEPT !.hasRed = ~@]
          [] choice = GREEN -> [g EXCEPT !.hasGreen = ~@]
          [] choice = BLUE  -> [g EXCEPT !.hasBlue = ~@]
          [] OTHER          -> g

(* the guessed mix after the top-button part of guess, for the row pos *)
Select(g, pos) ==
    LET choice == USub(pos, TOP_OPTION_POS)
    IN  CASE choice = RED   -> [g EXCEPT !.hasRed = TRUE]
          [] choice = GREEN -> [g EXCEPT !.hasGreen = TRUE]
          [] choice = BLUE  -> [g EXCEPT !.hasBlue = TRUE]
          [] OTHER          -> g

SelectFinishes(pos) ==
    LET choice == USub(pos, TOP_OPTION_POS)
    IN  choice \notin {RED, GREEN, BLUE}

guess_selectFirst(pos, g, l, bottomPushed, topPushed) ==
    LET pos1 == MoveArrow(pos, bottomPushed)
        l1   == IF topPushed THEN LCDDrawChar(l, pos, 9, "*") ELSE l
    IN  [arrowPos   |-> pos1,
         guessColor |-> IF topPushed THEN Select(g, pos) ELSE g,
         lcd        |-> IF bottomPushed
                        THEN LCDDrawChar(LCDDrawChar(l1, pos, 1, " "), pos1, 1, ">")
                        ELSE l1,
         finished   |-> topPushed /\ SelectFinishes(pos)]

guess_swapped(pos, g, l, bottomPushed, topPushed) ==
    LET pos1 == MoveArrow(pos, topPushed)
        l1   == IF topPushed
                THEN LCDDrawChar(LCDDrawChar(l, pos, 1, " "), pos1, 1, ">")
                ELSE l
    IN  [arrowPos   |-> pos1,
         guessColor |-> IF bottomPushed THEN Select(g, pos1) ELSE g,
         lcd        |-> IF bottomPushed THEN LCDDrawChar(l1, pos1, 9, "*") ELSE l1,
         finished   |-> bottomPushed /\ SelectFinishes(pos1)]

guess(pos, g, l, bottomPushed, topPushed) ==
    LET pos1 == MoveArrow(pos, bottomPushed)
        l1   == IF bottomPushed
                THEN LCDDrawChar(LCDDrawChar(l, pos, 1, " "), pos1, 1, ">")
                ELSE l
    IN  [arrowPos   |-> pos1,
         guessColor |-> IF topPushed THEN Select(g, pos1) ELSE g,
         lcd        |-> IF topPushed THEN LCDDrawChar(l1, pos1, 9, "*") ELSE l1,
         finished   |-> topPushed /\ SelectFinishes(pos1)]

(* ---------------------------- testFSM ---------------------------------- *)

(* the static variables of testFSM, with the LEDs and the display *)
TestStatics ==
    [testState |-> testState, colorIndex |-> colorIndex, arrowPos |-> arrowPos,
     actualColor |-> actualColor, guessColor |-> guessColor,
     leds |-> leds, lcd |-> lcd]

randomBit(vx, vy) == ((vx % 2) = 1) # ((vy % 2) = 1)

testReset_keepLeds(t) ==
    [t EXCEPT !.testState = "setup", !.colorIndex = RED,
              !.arrowPos = TOP_OPTION_POS, !.guessColor = NoColor]

testReset_keepArrow(t) ==
    [t EXCEPT !.testState = "setup", !.colorIndex = RED,
              !.leds = LedsOff, !.guessColor = NoColor]

testReset(t) ==
    [t EXCEPT !.testState = "setup", !.colorIndex = RED,
              !.arrowPos = TOP_OPTION_POS, !.leds = LedsOff,
              !.guessColor = NoColor]

testSetup_skipBlue(t, vx, vy) ==
    LET bit == randomBit(vx, vy)
        t1  == CASE t.colorIndex = RED   -> [t EXCEPT !.actualColor.hasRed = bit]
                 [] t.colorIndex = GREEN -> [t EXCEPT !.actualColor.hasGreen = bit]
                 [] t.colorIndex = BLUE  -> t
                 [] OTHER                -> [t EXCEPT !.testState = "lightup"]
    IN  [t1 EXCEPT !.colorIndex = @ + 1]

testSetup_greenTwice(t, vx, vy) ==
    LET bit == randomBit(vx, vy)
        t1  == CASE t.colorIndex = RED   -> [t EXCEPT !.actualColor.hasRed = bit]
                 [] t.colorIndex = GREEN -> [t EXCEPT !.actualColor.hasGreen = bit]
                 [] t.colorIndex = BLUE  -> [t EXCEPT !.actualColor.hasGreen = bit]
                 [] OTHER                -> [t EXCEPT !.testState = "lightup"]
    IN  [t1 EXCEPT !.colorIndex = @ + 1]

testSetup(t, vx, vy) ==
    LET bit == randomBit(vx, vy)
        t1  == CASE t.colorIndex = RED   -> [t EXCEPT !.actualColor.hasRed = bit]
                 [] t.colorIndex = GREEN -> [t EXCEPT !.actualColor.hasGreen = bit]
                 [] t.colorIndex = BLUE  -> [t EXCEPT !.actualColor.hasBlue = bit]
                 [] OTHER                -> [t EXCEPT !.testState = "lightup"]
    IN  [t1 EXCEPT !.colorIndex = @ + 1]

testLightup_toSetup(t) ==
    [t EXCEPT !.leds = [red   |-> @.red   \/ t.actualColor.hasRed,
                        green |-> @.green \/ t.actualColor.hasGreen,
                        blue  |-> @.blue  \/ t.actualColor.hasBlue],
              !.testState = "setup"]

testLightup(t) ==
    [t EXCEPT !.leds = [red   |-> @.red   \/ t.actualColor.hasRed,
                        green |-> @.green \/ t.actualColor.hasGreen,
                        blue  |-> @.blue  \/ t.actualColor.hasBlue],
              !.testState = "testing"]

testTesting(t, bottomPushed, topPushed) ==
    LET g == guess(t.arrowPos, t.guessColor, t.lcd, bottomPushed, topPushed)
    IN  [t EXCEPT !.arrowPos = g.arrowPos, !.guessColor = g.guessColor,
                  !.lcd = g.lcd]

testFSM_alwaysWrites(t, nt, bottomPushed, topPushed, vx, vy, uninit) ==
    LET t1 == IF nt THEN testReset(t) ELSE t
        t2 == CASE t1.testState = "setup"   -> testSetup(t1, vx, vy)
                [] t1.testState = "lightup" -> testLightup(t1)
                [] OTHER -> testTesting(t1, bottomPushed, topPushed)
        finished == /\ t1.testState = "testing"
                    /\ guess(t1.arrowPos, t1.guessColor, t1.lcd,
                             bottomPushed, topPushed).finished
    IN  [statics  |-> t2,
         phase    |-> t1.testState,
         finished |-> finished,
         result   |-> match(t2.guessColor, t2.actualColor)]

testFSM_noBreak(t, nt, bottomPushed, topPushed, vx, vy, uninit) ==
    LET t1 == IF nt THEN testReset(t) ELSE t
        t2 == CASE t1.testState = "setup"   -> testSetup(t1, vx, vy)
                [] t1.testState = "lightup" ->
                       testTesting(testLightup(t1), bottomPushed, topPushed)
                [] OTHER -> testTesting(t1, bottomPushed, topPushed)
        finished == /\ t1.testState \in {"lightup", "testing"}
                    /\ guess(t1.arrowPos, t1.guessColor, t1.lcd,
                             bottomPushed, topPushed).finished
    IN  [statics  |-> t2,
         phase    |-> t1.testState,
         finished |-> finished,
         result   |-> IF finished THEN match(t2.guessColor, t2.actualColor)
                                  ELSE uninit]

(* one call testFSM(nt, &result): the statics after the call, the returned *)
(* flag, and the result written through the pointer (uninit when none is)  *)
testFSM(t, nt, bottomPushed, topPushed, vx, vy, uninit) ==
    LET t1 == IF nt THEN testReset(t) ELSE t
        t2 == CASE t1.testState = "setup"   -> testSetup(t1, vx, vy)
                [] t1.testState = "lightup" -> testLightup(t1)
                [] OTHER -> testTesting(t1, bottomPushed, topPushed)
        finished == /\ t1.testState = "testing"
                    /\ guess(t1.arrowPos, t1.guessColor, t1.lcd,
                             bottomPushed, topPushed).finished
    IN  [statics  |-> t2,
         phase    |-> t1.testState,
         finished |-> finished,
         result   |-> IF finished THEN match(t2.guessColor, t2.actualColor)
                                  ELSE uninit]

(* --------------------------- ScreensFSM -------------------------------- *)

IdleIO ==
    [state |-> "INCEPTION", reads |-> {}, bottom |-> FALSE, top |-> FALSE,
     expired |-> FALSE, vx |-> 0, vy |-> 0, called |-> FALSE,
     phase |-> "none", newTest |-> FALSE, finished |-> FALSE,
     draws |-> {}, startSWTimer |-> FALSE]

Init ==
    /\ state = "INCEPTION"
    /\ OST = [wait |-> 0, running |-> FALSE, expired |-> FALSE]
    /\ newTest = FALSE
    /\ testState = "setup"
    /\ colorIndex = RED
    /\ arrowPos = 0
    /\ actualColor = NoColor
    /\ guessColor = NoColor
    /\ leds = LedsOff
    /\ lcd = LCDClearDisplay("blank")
    /\ result \in BOOLEAN
    /\ io = IdleIO
    /\ hist = [sampled |-> << >>, selected |-> {}]

OpeningNext_noWait(swTimerExpired) == "INSTRUCTIONS"

OpeningNext(swTimerExpired) ==
    IF swTimerExpired THEN "INSTRUCTIONS" ELSE "OPENING"

InstructionsNext_noWait(bottomPushed) == "TEST"

InstructionsNext(bottomPushed) ==
    IF bottomPushed THEN "TEST" ELSE "INSTRUCTIONS"

InstructionsNewTest_never(bottomPushed, nt) == nt

InstructionsNewTest(bottomPushed, nt) ==
    IF bottomPushed THEN TRUE ELSE nt

TestNext(testFinished) ==
    IF testFinished THEN "TESTEND" ELSE "TEST"

TestEndNext_stuck(swTimerExpired) == "TESTEND"

TestEndNext_toOpening(swTimerExpired) ==
    IF swTimerExpired THEN "OPENING" ELSE "TESTEND"

TestEndNext(swTimerExpired) ==
    IF swTimerExpired THEN "INSTRUCTIONS" ELSE "TESTEND"

(* case INCEPTION, then the output section *)
TickInception ==
    /\ state = "INCEPTION"
    /\ state' = "OPENING"
    /\ OST' = StartOneShotSWTimer(OPENING_WAIT)
    /\ lcd' = DrawOpeningScreen
    /\ result' \in BOOLEAN
    /\ io' = [IdleIO EXCEPT !.state = "INCEPTION", !.draws = {"opening"},
                            !.startSWTimer = TRUE]
    /\ UNCHANGED <<newTest, testState, colorIndex, arrowPos, actualColor,
                   guessColor, leds, hist>>

(* case OPENING, then the output section *)
TickOpening ==
    /\ state = "OPENING"
    /\ LET swTimerExpired == OneShotSWTimerExpired(OST)
           next == OpeningNext(swTimerExpired)
       IN  /\ state' = next
           /\ lcd' = IF next = "INSTRUCTIONS" THEN DrawInstructionsScreen ELSE lcd
           /\ io' = [IdleIO EXCEPT !.state = "OPENING", !.reads = {"timer"},
                                   !.expired = swTimerExpired,
                                   !.draws = IF next = "INSTRUCTIONS"
                                             THEN {"instructions"} ELSE {}]
    /\ result' \in BOOLEAN
    /\ UNCHANGED <<OST, newTest, testState, colorIndex, arrowPos, actualColor,
                   guessColor, leds, hist>>

(* case INSTRUCTIONS, then the output section *)
TickInstructions ==
    /\ state = "INSTRUCTIONS"
    /\ \E bottomPushed \in BOOLEAN :
         LET next == InstructionsNext(bottomPushed)
         IN  /\ state' = next
             /\ newTest' = InstructionsNewTest(bottomPushed, newTest)
             /\ lcd' = IF next = "TEST" THEN DrawTestScreen ELSE lcd
             /\ io' = [IdleIO EXCEPT !.state = "INSTRUCTIONS",
                                     !.reads = {"bottom"},
                                     !.bottom = bottomPushed,
                                     !.draws = IF next = "TEST"
                                               THEN {"test"} ELSE {}]
    /\ result' \in BOOLEAN
    /\ UNCHANGED <<OST, testState, colorIndex, arrowPos, actualColor,
                   guessColor, leds, hist>>

(* the inputs of the current test, as the user and the joystick gave them *)
HistAfter(h, nt, phase, pos, bottomPushed, topPushed, vx, vy) ==
    LET h1  == IF nt THEN [sampled |-> << >>, selected |-> {}] ELSE h
        row == IF ~bottomPushed THEN pos
               ELSE IF pos = BOTTOM_OPTION_POS THEN TOP_OPTION_POS ELSE pos + 1
    IN  CASE phase = "setup" ->
               [h1 EXCEPT !.sampled = Append(@, (vx + vy) % 2 = 1)]
          [] phase = "testing" /\ topPushed /\ row < BOTTOM_OPTION_POS ->
               [h1 EXCEPT !.selected = @ \cup {row}]
          [] OTHER -> h1

(* case TEST, then the output section; the buttons may fire on any poll,  *)
(* the joystick is drawn when Setup samples it, and io keeps the edges     *)
(* that the phase read                                                     *)
TickTest ==
    /\ state = "TEST"
    /\ \E bottomPushed, topPushed, uninit \in BOOLEAN, vx, vy \in 0..MaxSample :
         LET t0     == IF newTest THEN testReset(TestStatics) ELSE TestStatics
             phase  == t0.testState
             r      == testFSM(TestStatics, newTest, bottomPushed, topPushed,
                               vx, vy, uninit)
             t      == r.statics
             next   == TestNext(r.finished)
         IN  /\ phase = "setup" \/ (vx = 0 /\ vy = 0)
             /\ testState' = t.testState
             /\ colorIndex' = t.colorIndex
             /\ arrowPos' = t.arrowPos
             /\ actualColor' = t.actualColor
             /\ guessColor' = t.guessColor
             /\ leds' = t.leds
             /\ result' = r.result
             /\ state' = next
             /\ OST' = IF r.finished THEN StartOneShotSWTimer(OPENING_WAIT)
                                     ELSE OST
             /\ lcd' = IF r.finished THEN DrawEndTestScreen(r.result) ELSE t.lcd
             /\ io' = [IdleIO EXCEPT
                         !.state = "TEST",
                         !.reads = CASE phase = "setup" -> {"joystick"}
                                     [] phase = "testing" -> {"bottom", "top"}
                                     [] OTHER -> {},
                         !.bottom = (phase = "testing" /\ bottomPushed),
                         !.top = (phase = "testing" /\ topPushed),
                         !.vx = vx, !.vy = vy,
                         !.called = TRUE, !.phase = phase,
                         !.newTest = newTest, !.finished = r.finished,
                         !.draws = IF r.finished THEN {"end"} ELSE {},
                         !.startSWTimer = r.finished]
             /\ hist' = HistAfter(hist, newTest, phase, arrowPos,
                                  bottomPushed, topPushed, vx, vy)
    /\ newTest' = FALSE

(* case TESTEND, then the output section *)
TickTestEnd ==
    /\ state = "TESTEND"
    /\ LET swTimerExpired == OneShotSWTimerExpired(OST)
           next == TestEndNext(swTimerExpired)
       IN  /\ state' = next
           /\ lcd' = IF next = "INSTRUCTIONS" THEN DrawInstructionsScreen ELSE lcd
           /\ io' = [IdleIO EXCEPT !.state = "TESTEND", !.reads = {"timer"},
                                   !.expired = swTimerExpired,
                                   !.draws = IF next = "INSTRUCTIONS"
                                             THEN {"instructions"} ELSE {}]
    /\ result' \in BOOLEAN
    /\ UNCHANGED <<OST, newTest, testState, colorIndex, arrowPos, actualColor,
                   guessColor, leds, hist>>

(* the hardware timer started by StartOneShotSWTimer runs out *)
TimerExpires ==
    /\ OST.running
    /\ ~OST.expired
    /\ OST' = [OST EXCEPT !.expired = TRUE]
    /\ UNCHANGED <<state, newTest, testState, colorIndex, arrowPos,
                   actualColor, guessColor, leds, lcd, result, io, hist>>

ScreensFSM ==
    \/ TickInception
    \/ TickOpening
    \/ TickInstructions
    \/ TickTest
    \/ TickTestEnd

Next == ScreensFSM \/ TimerExpires

Spec == Init /\ [][Next]_vars

(* main calls ScreensFSM forever, and a started timer runs out *)
FairSpec == Spec /\ WF_vars(ScreensFSM) /\ WF_vars(TimerExpires)

(* ---------------------------- properties -------------------------------- *)

(* the mix given by the first three bits sampled in the current test *)
SampledMix ==
    [hasRed |-> hist.sampled[1], hasGreen |-> hist.sampled[2],
     hasBlue |-> hist.sampled[3]]

(* the mix given by the rows selected since the new-test signal *)
SelectedMix ==
    [hasRed   |-> (TOP_OPTION_POS + RED) \in hist.selected,
     hasGreen |-> (TOP_OPTION_POS + GREEN) \in hist.selected,
     hasBlue  |-> (TOP_OPTION_POS + BLUE) \in hist.selected]

(* the row a move edge leads to *)
NextRow(r) == IF r = BOTTOM_OPTION_POS THEN TOP_OPTION_POS ELSE r + 1

(* C1: on the poll where testFSM reports finished, guessed holds exactly   *)
(* the channels selected since the new-test signal, actual holds the bits  *)
(* sampled in this test's Setup, and the reported result is true exactly   *)
(* when the two agree on all three channels.                               *)
C1_ResultIsMatch ==
    io.finished =>
        /\ Len(hist.sampled) >= 3
        /\ guessColor = SelectedMix
        /\ actualColor = SampledMix
        /\ result <=> /\ SelectedMix.hasRed = SampledMix.hasRed
                      /\ SelectedMix.hasGreen = SampledMix.hasGreen
                      /\ SelectedMix.hasBlue = SampledMix.hasBlue
        /\ lcd.screen = IF result THEN "Right!" ELSE "Wrong!"

(* actual = {R, B}, only Red selected, End selected: reported false *)
C1_Witness ==
    /\ io.finished
    /\ actualColor = [hasRed |-> TRUE, hasGreen |-> FALSE, hasBlue |-> TRUE]
    /\ hist.selected = {TOP_OPTION_POS + RED}
    /\ result = FALSE

C3_SetupAssignsInOrder ==
    /\ [](Len(hist.sampled) >= 3 => actualColor = SampledMix)
    /\ [][(state = "TEST" /\ io'.phase = "setup") =>
            LET k   == Len(hist'.sampled)
                bit == ((io'.vx % 2) + (io'.vy % 2)) = 1
            IN  /\ hist'.sampled[k] = bit
                /\ k = 1 => actualColor' = [actualColor EXCEPT !.hasRed = bit]
                /\ k = 2 => actualColor' = [actualColor EXCEPT !.hasGreen = bit]
                /\ k = 3 => actualColor' = [actualColor EXCEPT !.hasBlue = bit]
                /\ k > 3 => actualColor' = actualColor]_vars

(* three Setup polls sampled (1, 0, 1); the third read vx = 1, vy = 2 *)
C3_Witness ==
    /\ Len(hist.sampled) = 3
    /\ testState = "setup"
    /\ actualColor = [hasRed |-> TRUE, hasGreen |-> FALSE, hasBlue |-> TRUE]
    /\ io.vx = 1 /\ io.vy = 2

(* C4: on a Testing poll the move is applied first and the select acts on  *)
(* the row reached after the move; finished is reported exactly when a     *)
(* select edge fires while that row is End.                                *)
C4_MoveBeforeSelect ==
    [][(state = "TEST" /\ io'.phase = "testing") =>
          LET row == IF io'.bottom THEN NextRow(arrowPos) ELSE arrowPos
          IN  /\ arrowPos' = row
              /\ io'.finished <=> (io'.top /\ row = BOTTOM_OPTION_POS)
              /\ (io'.top /\ row = TOP_OPTION_POS + RED) =>
                     guessColor' = [guessColor EXCEPT !.hasRed = TRUE]
              /\ (io'.top /\ row = TOP_OPTION_POS + GREEN) =>
                     guessColor' = [guessColor EXCEPT !.hasGreen = TRUE]
              /\ (io'.top /\ row = TOP_OPTION_POS + BLUE) =>
                     guessColor' = [guessColor EXCEPT !.hasBlue = TRUE]
              /\ (~io'.top \/ row = BOTTOM_OPTION_POS) =>
                     guessColor' = guessColor
              /\ (io'.bottom /\ io'.top /\ arrowPos = TOP_OPTION_POS + BLUE) =>
                     io'.finished /\ guessColor' = guessColor
              /\ (io'.bottom /\ io'.top /\ arrowPos = BOTTOM_OPTION_POS) =>
                     /\ arrowPos' = TOP_OPTION_POS
                     /\ guessColor'.hasRed
                     /\ ~io'.finished]_vars

(* both edges fired with the arrow on Blue: finished, Blue not marked *)
C4_Witness ==
    /\ io.phase = "testing"
    /\ io.bottom /\ io.top
    /\ arrowPos = BOTTOM_OPTION_POS
    /\ io.finished
    /\ ~guessColor.hasBlue

C6_SelectSetsOneFlag ==
    [][/\ (state = "TEST" /\ io'.phase = "testing" /\ io'.top) =>
            /\ arrowPos' = TOP_OPTION_POS + RED =>
                   /\ guessColor'.hasRed
                   /\ guessColor'.hasGreen = guessColor.hasGreen
                   /\ guessColor'.hasBlue = guessColor.hasBlue
            /\ arrowPos' = TOP_OPTION_POS + GREEN =>
                   /\ guessColor'.hasGreen
                   /\ guessColor'.hasRed = guessColor.hasRed
                   /\ guessColor'.hasBlue = guessColor.hasBlue
            /\ arrowPos' = TOP_OPTION_POS + BLUE =>
                   /\ guessColor'.hasBlue
                   /\ guessColor'.hasRed = guessColor.hasRed
                   /\ guessColor'.hasGreen = guessColor.hasGreen
            /\ arrowPos' \in hist.selected =>
                   guessColor' = guessColor
       /\ ~(state = "TEST" /\ newTest) =>
            /\ guessColor.hasRed => guessColor'.hasRed
            /\ guessColor.hasGreen => guessColor'.hasGreen
            /\ guessColor.hasBlue => guessColor'.hasBlue]_vars

(* a select edge on the Green row, with Red selected before *)
C6_Witness ==
    /\ io.phase = "testing"
    /\ io.top /\ ~io.bottom
    /\ arrowPos = TOP_OPTION_POS + GREEN
    /\ guessColor = [hasRed |-> TRUE, hasGreen |-> TRUE, hasBlue |-> FALSE]

(* C7: Inception is left on the first poll and never re-entered, Opening   *)
(* is entered only from Inception, and the only other state changes are    *)
(* Opening -> Instructions, Instructions -> Test, Test -> TestEnd and      *)
(* TestEnd -> Instructions.                                                *)
C7_ScreenCycle ==
    [][/\ state = "INCEPTION" => state' = "OPENING"
       /\ state' # "INCEPTION"
       /\ (state' = "OPENING" /\ state # "OPENING") => state = "INCEPTION"
       /\ state' # state =>
            <<state, state'>> \in {<<"INCEPTION", "OPENING">>,
                                   <<"OPENING", "INSTRUCTIONS">>,
                                   <<"INSTRUCTIONS", "TEST">>,
                                   <<"TEST", "TESTEND">>,
                                   <<"TESTEND", "INSTRUCTIONS">>}]_vars

(* the cycle closed: back in Instructions from TestEnd *)
C7_Witness ==
    /\ state = "INSTRUCTIONS"
    /\ io.state = "TESTEND"
    /\ io.expired

(* C8: a poll in Instructions reads the bottom button and changes the      *)
(* state to Test exactly when its edge fires; without the edge the state   *)
(* stays Instructions, the new-test signal stays de-asserted and nothing   *)
(* is drawn.                                                               *)
C8_InstructionsWaits ==
    [][state = "INSTRUCTIONS" =>
          /\ io'.reads = {"bottom"}
          /\ state' = "TEST" <=> io'.bottom
          /\ io'.bottom => (newTest' /\ io'.draws = {"test"})
          /\ ~io'.bottom =>
                /\ state' = "INSTRUCTIONS"
                /\ ~newTest'
                /\ io'.draws = {}
                /\ lcd' = lcd]_vars

(* a poll in Instructions without a button edge *)
C8_Witness ==
    /\ state = "INSTRUCTIONS"
    /\ io.state = "INSTRUCTIONS"
    /\ ~io.bottom
    /\ lcd.screen = "instructions"

(* C9: the Inception poll starts the timer; a poll in Opening changes the  *)
(* state to Instructions exactly when the timer reports expired on that    *)
(* poll, and otherwise the state stays Opening.                            *)
C9_OpeningUntilExpired ==
    [][/\ state = "INCEPTION" =>
            (OST'.running /\ ~OST'.expired /\ io'.startSWTimer)
       /\ state = "OPENING" =>
            /\ state' \in {"OPENING", "INSTRUCTIONS"}
            /\ state' = "INSTRUCTIONS" <=> (OST.expired /\ OST' = OST)
            /\ OST' = OST => (io'.reads = {"timer"} /\ io'.expired = OST.expired)
            /\ state' = "INSTRUCTIONS" => io'.draws = {"instructions"}]_vars

(* Opening left on a poll that found the timer expired *)
C9_Witness ==
    /\ state = "INSTRUCTIONS"
    /\ io.state = "OPENING"
    /\ io.expired
    /\ OST.wait = OPENING_WAIT

(* C10: every poll in Test calls testFSM; newTest is true on the poll that *)
(* follows the Instructions -> Test poll and false on every poll that      *)
(* follows another Test poll; testFSM is called in no other state.         *)
C10_NewTestOnFirstPoll ==
    [][/\ state = "TEST" =>
            /\ io'.called
            /\ io'.newTest <=> io.state = "INSTRUCTIONS"
            /\ ~io'.newTest <=> io.state = "TEST"
       /\ (state # "TEST" /\ io' # io) => ~io'.called]_vars

(* the first poll of a repeated test: blue is left from the test before *)
C10_Witness ==
    /\ io.called
    /\ io.newTest
    /\ actualColor.hasBlue

(* a later poll of a visit to Test *)
C10_WitnessLater ==
    /\ io.called
    /\ ~io.newTest
    /\ io.phase = "testing"

(* C11: the timer started on the Test -> TestEnd poll is started with     *)
(* ENDTEST_WAIT, a longer delay than the OPENING_WAIT of the timer started *)
(* on the Inception -> Opening poll.                                       *)
C11_EndTimerLonger ==
    /\ state = "OPENING" => OST.wait = OPENING_WAIT
    /\ state = "TESTEND" => (OST.wait = ENDTEST_WAIT /\ OST.wait > OPENING_WAIT)

C13_NeverStuck ==
    /\ <>(state = "INSTRUCTIONS")
    /\ (state = "TESTEND") ~> (state = "INSTRUCTIONS")
    /\ (state = "TEST") ~> (io.state = "TEST" /\ io.phase = "testing")
    /\ [](io.phase = "testing" /\ io.top /\ arrowPos = BOTTOM_OPTION_POS
            => state = "TESTEND")

(* Instructions drawn again after the result page of a finished test *)
C13_Witness ==
    /\ state = "INSTRUCTIONS"
    /\ lcd.screen = "instructions"
    /\ io.draws = {"instructions"}
    /\ testState = "testing"
    /\ OST.expired

(* all eight values of colorMix_t *)
ColorMixes == [hasRed : BOOLEAN, hasGreen : BOOLEAN, hasBlue : BOOLEAN]

(* C14: over all 8 x 8 pairs of mixes match(a, b) = match(b, a), match(a,  *)
(* a) is true, and match(a, b) is true only when all three flags agree;    *)
(* the same holds of the guessed and actual mix of every reachable state.  *)
C14_MatchSymmetric ==
    /\ \A a, b \in ColorMixes :
          /\ match(a, b) = match(b, a)
          /\ match(a, a)
          /\ match(a, b) => /\ a.hasRed = b.hasRed
                            /\ a.hasGreen = b.hasGreen
                            /\ a.hasBlue = b.hasBlue
    /\ match(guessColor, actualColor) = match(actualColor, guessColor)
    /\ match(guessColor, guessColor) /\ match(actualColor, actualColor)

(* match was applied to two different mixes and reported false *)
C14_Witness ==
    /\ io.finished
    /\ guessColor = [hasRed |-> FALSE, hasGreen |-> TRUE, hasBlue |-> FALSE]
    /\ actualColor = [hasRed |-> TRUE, hasGreen |-> TRUE, hasBlue |-> FALSE]
    /\ ~result

(* C15: a test is in Setup for exactly three polls: the third Setup poll,  *)
(* the one that assigns Blue, takes the transition to LightUp.             *)
C15_SetupThreePolls ==
    /\ Len(hist.sampled) <= 3
    /\ (io.state = "TEST" /\ io.phase = "setup" /\ Len(hist.sampled) = 3)
          => testState = "lightup"
    /\ (io.state = "TEST" /\ io.phase = "setup" /\ Len(hist.sampled) < 3)
          => testState = "setup"

(* C16: within one test the phase only advances Setup -> LightUp ->        *)
(* Testing: a LightUp poll always moves to Testing, a Testing poll stays   *)
(* in Testing (also when it reports finished), and the phase becomes Setup *)
(* again only on a poll with the new-test signal.                          *)
C16_PhaseMonotone ==
    [][/\ testState' # testState =>
            \/ <<testState, testState'>> \in {<<"setup", "lightup">>,
                                               <<"lightup", "testing">>}
            \/ (state = "TEST" /\ newTest /\ testState' = "setup")
       /\ (state = "TEST" /\ io'.phase = "lightup") =>
            (testState = "lightup" /\ testState' = "testing")
       /\ (state = "TEST" /\ io'.phase = "testing") =>
            (testState = "testing" /\ testState' = "testing")
       /\ (state = "TEST" /\ newTest) => testState' = "setup"
       /\ state # "TEST" => testState' = testState]_vars

(* a poll that reported finished left the phase in Testing *)
C16_Witness ==
    /\ io.finished
    /\ state = "TESTEND"
    /\ testState = "testing"
    /\ colorIndex = BLUE + 2

(* the LEDs show exactly the actual mix *)
LedsShowActual ==
    /\ leds.red = actualColor.hasRed
    /\ leds.green = actualColor.hasGreen
    /\ leds.blue = actualColor.hasBlue

(* C17: all three LEDs are off from the new-test poll through the end of   *)
(* Setup, and from the LightUp poll until the next new-test poll (through  *)
(* Testing, TestEnd and the following Instructions) each LED is on exactly *)
(* when the corresponding actual flag is true.                             *)
C17_LedsFollowActual ==
    /\ testState \in {"setup", "lightup"} => leds = LedsOff
    /\ testState = "testing" => LedsShowActual
    /\ io.newTest => leds = LedsOff
    /\ (io.state = "TEST" /\ io.phase = "lightup") => LedsShowActual

(* back on the Instructions screen with the last test's LEDs still lit *)
C17_Witness ==
    /\ state = "INSTRUCTIONS"
    /\ testState = "testing"
    /\ leds = [red |-> TRUE, green |-> FALSE, blue |-> TRUE]
    /\ actualColor = [hasRed |-> TRUE, hasGreen |-> FALSE, hasBlue |-> TRUE]

(* C18: a call of testFSM that returns finished = false leaves the result  *)
(* output as it was and one that returns true writes the match into it;    *)
(* the end screen is drawn exactly on the poll where testFSM returned      *)
(* finished = true and shows the result written on that poll (a step that *)
(* leaves io as it was is the timer running out, not a poll).              *)
C18_ResultOnlyWhenFinished ==
    /\ [](\A nt, bottomPushed, topPushed, old \in BOOLEAN :
          \A vx, vy \in 0..MaxSample :
             LET r == testFSM(TestStatics, nt, bottomPushed, topPushed,
                              vx, vy, old)
             IN  /\ ~r.finished => r.result = old
                 /\ r.finished =>
                      r.result = (r.statics.guessColor = r.statics.actualColor))
    /\ [](lcd.screen \in {"Right!", "Wrong!"} =>
             /\ state = "TESTEND"
             /\ lcd.screen = "Right!" <=> guessColor = actualColor)
    /\ [][/\ io' # io =>
                ("end" \in io'.draws <=> (state = "TEST" /\ io'.finished))
          /\ (state = "TEST" /\ io'.finished) =>
                /\ result' = (guessColor' = actualColor')
                /\ lcd' = DrawEndTestScreen(result')
          /\ (lcd'.screen \in {"Right!", "Wrong!"} /\ lcd' # lcd) =>
                (state = "TEST" /\ io'.finished)]_vars

(* the end screen shows Right! for a matching guess *)
C18_Witness ==
    /\ io.finished
    /\ "end" \in io.draws
    /\ result
    /\ lcd.screen = "Right!"
    /\ guessColor = [hasRed |-> FALSE, hasGreen |-> TRUE, hasBlue |-> TRUE]

(* C19: on a Setup or LightUp poll no button edge is read, nothing is      *)
(* drawn, guessed and arrowPos stay as they are apart from the new-test    *)
(* reset, and finished is not reported; a poll reports finished only from  *)
(* Testing, with the LEDs already showing the actual mix.                  *)
C19_GuessOnlyInTesting ==
    [][/\ (state = "TEST" /\ io'.phase \in {"setup", "lightup"}) =>
            /\ io'.reads \cap {"bottom", "top"} = {}
            /\ ~io'.finished
            /\ state' = "TEST"
            /\ guessColor' = IF newTest THEN NoColor ELSE guessColor
            /\ arrowPos' = IF newTest THEN TOP_OPTION_POS ELSE arrowPos
            /\ lcd' = lcd
       /\ (state = "TEST" /\ io'.phase = "testing") =>
            io'.reads = {"bottom", "top"}
       /\ (io'.finished /\ io' # io) =>
            (state = "TEST" /\ testState = "testing" /\ LedsShowActual)]_vars

(* the LightUp poll of a test: nothing guessed, arrow on the first row *)
C19_Witness ==
    /\ io.state = "TEST"
    /\ io.phase = "lightup"
    /\ ~io.finished
    /\ guessColor = NoColor
    /\ arrowPos = TOP_OPTION_POS
    /\ leds.green

(* C20: when the result is computed each actual flag is the bit sampled    *)
(* for its channel in the current test's Setup, whatever the previous test *)
(* left, and no LightUp or Testing poll, and no step other than a Setup    *)
(* poll, changes actual.                                                   *)
C20_ActualIsThisTest ==
    /\ [](io.finished =>
             /\ actualColor.hasRed = hist.sampled[TOP_OPTION_POS + RED]
             /\ actualColor.hasGreen = hist.sampled[TOP_OPTION_POS + GREEN]
             /\ actualColor.hasBlue = hist.sampled[TOP_OPTION_POS + BLUE])
    /\ [][(actualColor' # actualColor) =>
             (state = "TEST" /\ io'.phase = "setup")]_vars

(* a finished test with an all-dark actual mix and a right guess *)
C20_Witness ==
    /\ io.finished
    /\ actualColor = NoColor
    /\ hist.sampled = <<FALSE, FALSE, FALSE, TRUE>>
    /\ result

====
